---- MODULE Spec2Model ----
(***************************************************************************)
(* Map generation and autotiling of bevy-spritesim (src/src/main.rs).      *)
(*                                                                         *)
(* The map is a HashMap from (i32, i32) to Tile; a Tile holds a HashMap    *)
(* from Layer to Kind and its render coordinates. build_map fills the map  *)
(* in ordered passes, generate_multiple_patches writes noise shaped        *)
(* patches, get_tiles_to_display picks the tileset index of a tile from    *)
(* its 8 neighbours.                                                       *)
(*                                                                         *)
(* Scaling. The code's grid is 200 x 200 with patches of radius up to 24;  *)
(* here the grid and the generation parameters are scaled down (the code's *)
(* values stand in the comments). Every value drawn from the random source *)
(* is a nondeterministic choice over its range. The simplex noise value is *)
(* a nondeterministic choice in NoiseVals, and radius, amplitude and noise *)
(* are integers, so that `height > 0` is decided exactly.                  *)
(***************************************************************************)
EXTENDS Integers, Sequences, FiniteSets, TLC

(* const MAP_WIDTH: i32 = 200; const MAP_HEIGHT: i32 = 200 (scaled) *)
MAP_WIDTH == 2
MAP_HEIGHT == 2
(* const SPRITE_SIZE: f32 = 16. *)
SPRITE_SIZE == 16
(* const TILESET_WIDTH: usize = 7; const TILESET_HEIGHT: usize = 7 *)
TILESET_WIDTH == 7
TILESET_HEIGHT == 7
(* let max_offset = 5 (scaled) *)
max_offset == 1
(* the values simplex_noise_2d_seeded may return, in units of the amplitude *)
NoiseVals == {-1, 0, 1}

(* enum Layer, enum TerrainKind, enum FeatureKind, enum SpecialKind, enum Kind *)
Layers == {"Terrain", "Feature", "Special"}
TerrainKinds == {"Desert", "Plain"}
FeatureKinds == {"Forest", "Ocean", "Hill", "Mountain"}
SpecialKinds == {"Lumber", "Corn", "Fish"}
Kinds == TerrainKinds \cup FeatureKinds \cup SpecialKinds

(* Option::None *)
None == "None"

(* fn get_layer_from_kind *)
get_layer_from_kind(kind) ==
    IF kind \in TerrainKinds THEN "Terrain"
    ELSE IF kind \in FeatureKinds THEN "Feature"
    ELSE "Special"

(* HashMap::insert and HashMap::remove on a TileLayers *)
LayersInsert(layers, layer, kind) ==
    [l \in (DOMAIN layers) \cup {layer} |-> IF l = layer THEN kind ELSE layers[l]]

LayersRemove(layers, layer) ==
    [l \in (DOMAIN layers) \ {layer} |-> layers[l]]

(* TileLayers::new() *)
NoLayers == [l \in {} |-> None]

(* HashMap::get on a TileLayers, as an Option<Kind> *)
LayersGet(layers, layer) ==
    IF layer \in DOMAIN layers THEN layers[layer] ELSE None

(* struct Tile *)
Tile(layers, coordinates) ==
    [layers |-> layers,
     real_coordinates |-> <<coordinates[1] * SPRITE_SIZE, coordinates[2] * SPRITE_SIZE>>]

(* fn get_kind_of_tile_layer *)
get_kind_of_tile_layer(tile, layer) == LayersGet(tile.layers, layer)

(* HashMap::new() and HashMap::insert on a Map *)
EmptyMap == [c \in {} |-> None]

MapInsert(m, key, tile) ==
    [c \in (DOMAIN m) \cup {key} |-> IF c = key THEN tile ELSE m[c]]

(* i32::clamp *)
Clamp(v, lo, hi) == IF v < lo THEN lo ELSE IF v > hi THEN hi ELSE v

(* a Range<i32> lo..hi (hi excluded) as the set gen_range draws from *)
RangeSet(range) == range[1] .. (range[2] - 1)


(***************************************************************************)
(* State.                                                                  *)
(*   map                   the Map under construction                      *)
(*   pc                    the loop of build_map or of                     *)
(*                         generate_multiple_patches that runs next        *)
(*   pass                  which generate_multiple_patches call of         *)
(*                         build_map runs (0: none, or a call of its own)  *)
(*   args                  the arguments of that call                      *)
(*   w, h                  the indices of the running nested for loops     *)
(*   patch_centers, idx    the centers of the call, the one being applied  *)
(*   radius, amplitude_scale   the values drawn for the patch applied      *)
(*   desert_band_thickness the value drawn at line 428                     *)
(*   written               the insert the last step made into the map, if  *)
(*                         any: the key, the coordinate computed before    *)
(*                         clamping, and the kinds inserted                *)
(*   call                  the arguments of a get_tiles_to_display call    *)
(*                         (tile, coordinates, layer), if one is made      *)
(*   tiles_to_display      what that call returned, once it has            *)
(*   extent                <<MAP_WIDTH, MAP_HEIGHT>> as the run was built  *)
(*                         with: the two constants, never assigned         *)
(*   rng_draws             the number of values the patch being generated  *)
(*                         has drawn from pseudo_rng_instance (lines       *)
(*                         297-299 and 307); 0 outside a call              *)
(***************************************************************************)
VARIABLES map, pc, pass, args, w, h, patch_centers, idx, radius,
          amplitude_scale, desert_band_thickness, written,
          call, tiles_to_display, extent, rng_draws

vars == <<map, pc, pass, args, w, h, patch_centers, idx, radius,
          amplitude_scale, desert_band_thickness, written,
          call, tiles_to_display, extent, rng_draws>>

(* the state of map generation but the map; the state of a display call *)
gen_locals == <<pc, pass, args, w, h, patch_centers, idx, radius,
                amplitude_scale, desert_band_thickness, written, extent, rng_draws>>
display_vars == <<call, tiles_to_display>>

(* the arguments of the four generate_multiple_patches calls of build_map, *)
(* scaled; the code's values are                                           *)
(*   Plain    count 8,  radius 5..25, amplitude 3.60..6.40                 *)
(*   Forest   count 15, radius 1..3,  amplitude 3.60..4.40                 *)
(*   Hill     count 10, radius 3..5,  amplitude 3.60..4.40                 *)
(*   Mountain count 10, radius 2..4,  amplitude 3.60..4.40                 *)
Passes ==
    << [kind |-> "Plain",    count |-> 2, radius_range |-> <<1, 2>>, amplitude_range |-> <<1, 2>>],
       [kind |-> "Forest",   count |-> 2, radius_range |-> <<1, 2>>, amplitude_range |-> <<1, 2>>],
       [kind |-> "Hill",     count |-> 2, radius_range |-> <<1, 2>>, amplitude_range |-> <<1, 2>>],
       [kind |-> "Mountain", count |-> 2, radius_range |-> <<1, 2>>, amplitude_range |-> <<1, 2>>] >>

(* no call of generate_multiple_patches is running *)
NoArgs == [kind |-> None, count |-> 0, radius_range |-> <<0, 0>>, amplitude_range |-> <<0, 0>>]

(* the ranges of desert_band_thickness and delta, scaled; the code's are   *)
(* 5 * MAP_HEIGHT / 100..10 * MAP_HEIGHT / 100 and 0..10 * MAP_HEIGHT / 100 *)
desert_band_thickness_range == <<0, 1>>
delta_range == <<0, 2>>

(* let map_middle_h = MAP_HEIGHT / 2 *)
map_middle_h == extent[2] \div 2

(* fn update_tile_in_map: the layers of the tile it inserts *)
UpdatedLayers(m, coordinates, terrain_kind, feature_kind, special_kind) ==
    LET l0 == IF coordinates \in DOMAIN m THEN m[coordinates].layers ELSE NoLayers
        l1 == IF terrain_kind # None THEN LayersInsert(l0, "Terrain", terrain_kind) ELSE l0
        l2 == IF feature_kind # None THEN LayersInsert(l1, "Feature", feature_kind) ELSE l1
        l3 == IF special_kind # None THEN LayersInsert(l2, "Special", special_kind) ELSE l2
    IN  l3

(* fn update_tile_in_map *)
update_tile_in_map(m, coordinates, terrain_kind, feature_kind, special_kind) ==
    MapInsert(m, coordinates,
              Tile(UpdatedLayers(m, coordinates, terrain_kind, feature_kind, special_kind),
                   coordinates))

(* what update_tile_in_map leaves in `written` *)
UpdateRecord(coordinates, terrain_kind, feature_kind, special_kind) ==
    {[key |-> coordinates, target |-> coordinates,
      kinds |-> {terrain_kind, feature_kind, special_kind} \ {None}]}

(* map.get(&key).unwrap().layers.get(&Layer::Terrain).unwrap() succeeds *)
HasTerrain(m, key) == key \in DOMAIN m /\ "Terrain" \in DOMAIN m[key].layers

(* the locals of generate_multiple_patches, out of scope *)
NoPatchLocals ==
    /\ patch_centers' = <<>>
    /\ idx' = 0
    /\ radius' = 0
    /\ amplitude_scale' = 0

(* the call generate_multiple_patches(rng, map, a.kind, a.count, ...) begins *)
EnterPatches(p, a) ==
    /\ pass' = p
    /\ args' = a
    /\ patch_centers' = <<>>
    /\ idx' = 1
    /\ radius' = 0
    /\ amplitude_scale' = 0
    /\ w' = IF a.count > 1 THEN 1 ELSE 0
    /\ h' = IF a.count > 1 THEN 1 ELSE 0
    /\ pc' = IF a.count > 1 THEN "centers" ELSE "patches"

(* build_map, lines 403-414: one iteration of the initialization loops *)
InitCell ==
    /\ UNCHANGED <<display_vars, extent>>
    /\ UNCHANGED rng_draws
    /\ pc = "init"
    /\ map' = update_tile_in_map(map, <<w, h>>, "Plain", "Ocean", None)
    /\ written' = UpdateRecord(<<w, h>>, "Plain", "Ocean", None)
    /\ IF h < extent[2]
         THEN /\ h' = h + 1
              /\ UNCHANGED <<w, pc, pass, args, patch_centers, idx, radius, amplitude_scale>>
         ELSE IF w < extent[1]
         THEN /\ w' = w + 1
              /\ h' = 0
              /\ UNCHANGED <<pc, pass, args, patch_centers, idx, radius, amplitude_scale>>
         ELSE EnterPatches(1, Passes[1])
    /\ UNCHANGED desert_band_thickness

(* generate_multiple_patches, lines 284-293: one center is pushed *)
PlaceCenter ==
    /\ UNCHANGED <<display_vars, extent>>
    /\ UNCHANGED rng_draws
    /\ pc = "centers"
    /\ \E jx \in -max_offset .. max_offset, jy \in -max_offset .. max_offset :
         patch_centers' = Append(patch_centers,
                                 << jx + (extent[1] * w) \div args.count,
                                    jy + (extent[2] * h) \div args.count >>)
    /\ IF h < args.count - 1
         THEN /\ h' = h + 1
              /\ UNCHANGED <<w, pc>>
         ELSE IF w < args.count - 1
         THEN /\ w' = w + 1
              /\ h' = 1
              /\ UNCHANGED pc
         ELSE /\ pc' = "patches"
              /\ w' = 0
              /\ h' = 0
    /\ written' = {}
    /\ UNCHANGED <<map, pass, args, idx, radius, amplitude_scale, desert_band_thickness>>

(* generate_multiple_patches, lines 296-300: the next center is taken and  *)
(* radius and amplitude_scale are drawn (frequency_scale only feeds the    *)
(* noise, which is a free choice here)                                     *)
StartPatch ==
    /\ UNCHANGED <<display_vars, extent>>
    /\ rng_draws' = 3
    /\ pc = "patches"
    /\ idx <= Len(patch_centers)
    /\ \E r \in RangeSet(args.radius_range), a \in RangeSet(args.amplitude_range) :
         /\ radius' = r
         /\ amplitude_scale' = a
         /\ w' = -(r + 1)
         /\ h' = -(r + 1)
    /\ pc' = "cells"
    /\ written' = {}
    /\ UNCHANGED <<map, pass, args, patch_centers, idx, desert_band_thickness>>

(* HeightAboveThreshold with height >= height_threshold *)
HeightAtThreshold(r, offset, dw, dh) ==
    /\ r + offset >= 0
    /\ (r + offset) * (r + offset) >= dw * dw + dh * dh

(* lines 311-312: height > height_threshold, for integer radius and offset *)
HeightAboveThreshold(r, offset, dw, dh) ==
    /\ r + offset > 0
    /\ (r + offset) * (r + offset) > dw * dw + dh * dh

(* lines 314-318: the key written for offset (dw, dh) of a patch *)
PatchKey(center, dw, dh) ==
    << Clamp(center[1] + dw, 1, extent[1] - 1),
       Clamp(center[2] + dh, 1, extent[2] - 1) >>

(* MayReplace without the Forest test of lines 325-327 *)
MayReplaceUnchecked(kind, m, key) == TRUE

(* lines 325-327: the kind may replace the tile at key *)
MayReplace(kind, m, key) ==
    kind # "Forest" \/ m[key].layers["Terrain"] = "Plain"

(* PatchedLayers with line 334 removing the Terrain layer *)
PatchedLayersDropsTerrain(layers, kind) ==
    LayersInsert(LayersRemove(layers, "Terrain"), get_layer_from_kind(kind), kind)

(* lines 331-337: the layers of the tile a patch inserts at key *)
PatchedLayers(layers, kind) ==
    LayersInsert(LayersRemove(layers, "Feature"), get_layer_from_kind(kind), kind)

(* NextOffset with the patch after the next one taken when a patch ends *)
NextOffsetSkipsPatch ==
    LET grid_half_size == radius + 1
    IN  IF h < grid_half_size
          THEN /\ h' = h + 1
               /\ UNCHANGED <<w, pc, idx, radius, amplitude_scale>>
          ELSE IF w < grid_half_size
          THEN /\ w' = w + 1
               /\ h' = -grid_half_size
               /\ UNCHANGED <<pc, idx, radius, amplitude_scale>>
          ELSE /\ pc' = "patches"
               /\ idx' = idx + 2
               /\ w' = 0
               /\ h' = 0
               /\ radius' = 0
               /\ amplitude_scale' = 0

(* the for loops of lines 301-302 move on, or the patch ends *)
NextOffset ==
    LET grid_half_size == radius + 1
    IN  IF h < grid_half_size
          THEN /\ h' = h + 1
               /\ UNCHANGED <<w, pc, idx, radius, amplitude_scale>>
          ELSE IF w < grid_half_size
          THEN /\ w' = w + 1
               /\ h' = -grid_half_size
               /\ UNCHANGED <<pc, idx, radius, amplitude_scale>>
          ELSE /\ pc' = "patches"
               /\ idx' = idx + 1
               /\ w' = 0
               /\ h' = 0
               /\ radius' = 0
               /\ amplitude_scale' = 0

(* generate_multiple_patches, lines 301-344: one offset of the patch *)
PatchCell ==
    /\ UNCHANGED <<display_vars, extent>>
    /\ pc = "cells"
    /\ \E noise \in NoiseVals :
         LET coordinates == patch_centers[idx]
             offset == noise * amplitude_scale
             key == PatchKey(coordinates, w, h)
             high == HeightAboveThreshold(radius, offset, w, h)
         IN  IF high /\ ~ (IF args.kind = "Forest" THEN HasTerrain(map, key)
                                                   ELSE key \in DOMAIN map)
               THEN \* an unwrap() of None
                    /\ pc' = "panic"
                    /\ written' = {}
                    /\ UNCHANGED <<map, w, h, idx, radius, amplitude_scale, rng_draws>>
               ELSE /\ rng_draws' = rng_draws + 1
                    /\ IF high /\ MayReplace(args.kind, map, key)
                         THEN /\ map' = MapInsert(map, key,
                                           Tile(PatchedLayers(map[key].layers, args.kind), key))
                              /\ written' = {[key |-> key,
                                              target |-> <<coordinates[1] + w, coordinates[2] + h>>,
                                              kinds |-> {args.kind}]}
                         ELSE /\ written' = {}
                              /\ UNCHANGED map
                    /\ NextOffset
    /\ UNCHANGED <<pass, args, patch_centers, desert_band_thickness>>

(* generate_multiple_patches returns to build_map, which goes on with the  *)
(* Desert band (after the Plain patches), the next patches, or the specials *)
ReturnFromPatches ==
    /\ UNCHANGED <<display_vars, extent>>
    /\ rng_draws' = 0
    /\ pc = "patches"
    /\ idx > Len(patch_centers)
    /\ written' = {}
    /\ IF pass = 1
         THEN /\ pc' = "desert_thickness"
              /\ pass' = 0
              /\ args' = NoArgs
              /\ NoPatchLocals
              /\ UNCHANGED <<w, h>>
         ELSE IF pass \in {2, 3}
         THEN EnterPatches(pass + 1, Passes[pass + 1])
         ELSE /\ pc' = IF pass = 4 THEN "specials" ELSE "done"
              /\ pass' = 0
              /\ args' = NoArgs
              /\ NoPatchLocals
              /\ UNCHANGED <<w, h>>
    /\ UNCHANGED <<map, desert_band_thickness>>

(* build_map, lines 428-429 *)
DesertThickness ==
    /\ UNCHANGED <<display_vars, extent>>
    /\ UNCHANGED rng_draws
    /\ pc = "desert_thickness"
    /\ \E t \in RangeSet(desert_band_thickness_range) : desert_band_thickness' = t
    /\ pc' = "desert"
    /\ w' = 0
    /\ h' = 0
    /\ written' = {}
    /\ UNCHANGED <<map, pass, args, patch_centers, idx, radius, amplitude_scale>>

(* build_map, lines 430-450: one iteration of the Desert loops *)
DesertCell ==
    /\ UNCHANGED <<display_vars, extent>>
    /\ UNCHANGED rng_draws
    /\ pc = "desert"
    /\ \E delta \in RangeSet(delta_range) :
         IF ~ HasTerrain(map, <<w, h>>)
           THEN \* an unwrap() of None
                /\ pc' = "panic"
                /\ written' = {}
                /\ UNCHANGED <<map, w, h, pass, args, patch_centers, idx, radius, amplitude_scale>>
           ELSE /\ IF /\ map[<<w, h>>].layers["Terrain"] = "Plain"
                      /\ h > map_middle_h - desert_band_thickness - delta
                      /\ h < map_middle_h + desert_band_thickness + delta
                     THEN /\ map' = update_tile_in_map(map, <<w, h>>, "Desert", None, None)
                          /\ written' = UpdateRecord(<<w, h>>, "Desert", None, None)
                     ELSE /\ written' = {}
                          /\ UNCHANGED map
                /\ IF h < extent[2]
                     THEN /\ h' = h + 1
                          /\ UNCHANGED <<w, pc, pass, args, patch_centers, idx, radius, amplitude_scale>>
                     ELSE IF w < extent[1]
                     THEN /\ w' = w + 1
                          /\ h' = 0
                          /\ UNCHANGED <<pc, pass, args, patch_centers, idx, radius, amplitude_scale>>
                     ELSE EnterPatches(2, Passes[2])
    /\ UNCHANGED desert_band_thickness

(* SpecialFor with the first arm matching any feature *)
SpecialForAnyFeature(terrain_kind, feature_kind) ==
    IF terrain_kind = "Plain" THEN "Corn"
    ELSE IF feature_kind = "Forest" THEN "Lumber"
    ELSE IF feature_kind = "Ocean" THEN "Fish"
    ELSE None

(* build_map, lines 492-516: the special the match arms place on a tile,   *)
(* gen_bool being true when it is asked                                    *)
SpecialFor(terrain_kind, feature_kind) ==
    IF terrain_kind = "Plain" /\ feature_kind = None THEN "Corn"
    ELSE IF feature_kind = "Forest" THEN "Lumber"
    ELSE IF feature_kind = "Ocean" THEN "Fish"
    ELSE None

(* build_map, lines 486-520: one iteration of the specials loops *)
SpecialCell ==
    /\ UNCHANGED <<display_vars, extent>>
    /\ UNCHANGED rng_draws
    /\ pc = "specials"
    /\ \E gen_bool \in BOOLEAN :
         IF ~ HasTerrain(map, <<w, h>>)
           THEN \* an unwrap() of None
                /\ pc' = "panic"
                /\ written' = {}
                /\ UNCHANGED <<map, w, h>>
           ELSE LET tile == map[<<w, h>>]
                    terrain_kind == tile.layers["Terrain"]
                    feature_kind == LayersGet(tile.layers, "Feature")
                    special == SpecialFor(terrain_kind, feature_kind)
                IN  /\ IF special # None /\ gen_bool
                         THEN /\ map' = update_tile_in_map(map, <<w, h>>, None, None, special)
                              /\ written' = UpdateRecord(<<w, h>>, None, None, special)
                         ELSE /\ written' = {}
                              /\ UNCHANGED map
                    /\ IF h < extent[2]
                         THEN /\ h' = h + 1
                              /\ UNCHANGED <<w, pc>>
                         ELSE IF w < extent[1]
                         THEN /\ w' = w + 1
                              /\ h' = 0
                              /\ UNCHANGED pc
                         ELSE /\ pc' = "done"
                              /\ w' = 0
                              /\ h' = 0
    /\ UNCHANGED <<pass, args, patch_centers, idx, radius, amplitude_scale, desert_band_thickness>>

(* build_map is entered: let mut map: Map = HashMap::new() *)
Init ==
    /\ map = EmptyMap
    /\ pc = "init"
    /\ pass = 0
    /\ args = NoArgs
    /\ w = 0
    /\ h = 0
    /\ patch_centers = <<>>
    /\ idx = 0
    /\ radius = 0
    /\ amplitude_scale = 0
    /\ desert_band_thickness = 0
    /\ extent = <<MAP_WIDTH, MAP_HEIGHT>>
    /\ rng_draws = 0
    /\ written = {}
    /\ call = {}
    /\ tiles_to_display = {}

Next ==
    \/ InitCell
    \/ PlaceCenter
    \/ StartPatch
    \/ PatchCell
    \/ ReturnFromPatches
    \/ DesertThickness
    \/ DesertCell
    \/ SpecialCell

Spec == Init /\ [][Next]_vars


(***************************************************************************)
(* get_tiles_to_display.                                                   *)
(***************************************************************************)

(* lines 116-155: the offsets of top_left, top, top_right, left, right,    *)
(* bottom_left, bottom, bottom_right                                       *)
NeighbourOffsets ==
    << <<-1, 1>>, <<0, 1>>, <<1, 1>>, <<-1, 0>>, <<1, 0>>, <<-1, -1>>, <<0, -1>>, <<1, -1>> >>

(* the place of each neighbour in the matched tuple *)
NeighbourIndex ==
    [top_left |-> 1, top |-> 2, top_right |-> 3, left |-> 4, right |-> 5,
     bottom_left |-> 6, bottom |-> 7, bottom_right |-> 8]

(* DefaultTile as a fixed tile instead of the queried one *)
DefaultTileHardcoded(tile) ==
    Tile(LayersInsert(LayersInsert(NoLayers, "Terrain", "Plain"), "Feature", "Ocean"), <<0, 0>>)

(* line 112: let default_tile = tile.clone() *)
DefaultTile(tile) == tile

(* lines 116-155: map.get(..).unwrap_or(&default_tile) and its kind on the *)
(* layer, for the 8 neighbours                                             *)
NeighbourKinds(tile, m, coordinates, layer) ==
    [i \in 1..8 |->
        LET at == <<coordinates[1] + NeighbourOffsets[i][1],
                    coordinates[2] + NeighbourOffsets[i][2]>>
        IN  get_kind_of_tile_layer(IF at \in DOMAIN m THEN m[at] ELSE DefaultTile(tile),
                                   layer)]

(* lines 170-179: the tuple that is matched *)
MatchTuple(tile, m, coordinates, layer) ==
    LET kind == get_kind_of_tile_layer(tile, layer)
        around == NeighbourKinds(tile, m, coordinates, layer)
    IN  [i \in 1..8 |-> around[i] = kind]

(* lines 181-249: the arms of the match, in order ("_" matches both) *)
Rules ==
    << [pattern |-> <<"_", "F", "_", "F", "T", "_", "T", "T">>, variant |-> 0, background |-> "top"],
       [pattern |-> <<"_", "F", "_", "T", "F", "T", "T", "_">>, variant |-> 2, background |-> "top"],
       [pattern |-> <<"_", "T", "T", "F", "T", "_", "F", "_">>, variant |-> 14, background |-> "left"],
       [pattern |-> <<"T", "T", "_", "T", "F", "_", "F", "_">>, variant |-> 16, background |-> "right"],
       [pattern |-> <<"_", "T", "T", "F", "T", "_", "T", "T">>, variant |-> 7, background |-> "left"],
       [pattern |-> <<"T", "T", "_", "T", "F", "T", "T", "_">>, variant |-> 9, background |-> "right"],
       [pattern |-> <<"_", "F", "_", "T", "T", "T", "T", "T">>, variant |-> 1, background |-> "top"],
       [pattern |-> <<"T", "T", "T", "T", "T", "_", "F", "_">>, variant |-> 15, background |-> "bottom"],
       [pattern |-> <<"_", "F", "_", "F", "F", "_", "T", "_">>, variant |-> 3, background |-> "top"],
       [pattern |-> <<"_", "T", "_", "F", "F", "_", "T", "_">>, variant |-> 10, background |-> "left"],
       [pattern |-> <<"_", "T", "_", "F", "F", "_", "F", "_">>, variant |-> 17, background |-> "right"],
       [pattern |-> <<"_", "F", "_", "F", "T", "_", "F", "_">>, variant |-> 21, background |-> "top"],
       [pattern |-> <<"_", "F", "_", "T", "T", "_", "F", "_">>, variant |-> 22, background |-> "top"],
       [pattern |-> <<"_", "F", "_", "T", "F", "_", "F", "_">>, variant |-> 23, background |-> "top"],
       [pattern |-> <<"T", "T", "T", "T", "T", "T", "T", "F">>, variant |-> 4, background |-> "bottom_right"],
       [pattern |-> <<"T", "T", "T", "T", "T", "F", "T", "T">>, variant |-> 5, background |-> "bottom_left"],
       [pattern |-> <<"T", "T", "F", "T", "T", "T", "T", "T">>, variant |-> 11, background |-> "top_right"],
       [pattern |-> <<"F", "T", "T", "T", "T", "T", "T", "T">>, variant |-> 12, background |-> "top_left"],
       [pattern |-> <<"_", "T", "T", "F", "T", "_", "T", "F">>, variant |-> 28, background |-> "left"],
       [pattern |-> <<"T", "T", "_", "T", "F", "F", "T", "_">>, variant |-> 29, background |-> "right"],
       [pattern |-> <<"_", "T", "F", "F", "T", "_", "T", "T">>, variant |-> 35, background |-> "top_right"],
       [pattern |-> <<"F", "T", "_", "T", "F", "T", "T", "_">>, variant |-> 36, background |-> "top_left"],
       [pattern |-> <<"_", "F", "_", "T", "T", "T", "T", "F">>, variant |-> 30, background |-> "top"],
       [pattern |-> <<"_", "F", "_", "T", "T", "F", "T", "T">>, variant |-> 31, background |-> "top"],
       [pattern |-> <<"T", "T", "F", "T", "T", "_", "F", "_">>, variant |-> 37, background |-> "top_right"],
       [pattern |-> <<"F", "T", "T", "T", "T", "_", "F", "_">>, variant |-> 38, background |-> "top_left"],
       [pattern |-> <<"F", "T", "F", "T", "T", "T", "T", "T">>, variant |-> 6, background |-> "top_left"],
       [pattern |-> <<"F", "T", "T", "T", "T", "F", "T", "T">>, variant |-> 13, background |-> "top_left"],
       [pattern |-> <<"T", "T", "F", "T", "T", "T", "T", "F">>, variant |-> 20, background |-> "top_right"],
       [pattern |-> <<"T", "T", "T", "T", "T", "F", "T", "F">>, variant |-> 27, background |-> "bottom_right"],
       [pattern |-> <<"T", "T", "F", "T", "T", "F", "T", "T">>, variant |-> 44, background |-> "top_right"],
       [pattern |-> <<"F", "T", "T", "T", "T", "T", "T", "F">>, variant |-> 45, background |-> "top_left"],
       [pattern |-> <<"F", "T", "F", "T", "T", "T", "T", "F">>, variant |-> 18, background |-> "top_left"],
       [pattern |-> <<"F", "T", "T", "T", "T", "F", "T", "F">>, variant |-> 19, background |-> "top_left"],
       [pattern |-> <<"T", "T", "F", "T", "T", "F", "T", "F">>, variant |-> 25, background |-> "top_right"],
       [pattern |-> <<"F", "T", "F", "T", "T", "F", "T", "T">>, variant |-> 26, background |-> "top_left"],
       [pattern |-> <<"_", "F", "_", "F", "T", "_", "T", "F">>, variant |-> 32, background |-> "top"],
       [pattern |-> <<"_", "F", "_", "T", "F", "F", "T", "_">>, variant |-> 34, background |-> "top"],
       [pattern |-> <<"_", "T", "F", "F", "T", "_", "F", "_">>, variant |-> 46, background |-> "top_right"],
       [pattern |-> <<"F", "T", "_", "T", "F", "_", "F", "_">>, variant |-> 48, background |-> "top_left"],
       [pattern |-> <<"_", "F", "_", "T", "T", "F", "T", "F">>, variant |-> 33, background |-> "top"],
       [pattern |-> <<"_", "T", "F", "F", "T", "_", "T", "F">>, variant |-> 39, background |-> "top_right"],
       [pattern |-> <<"F", "T", "_", "T", "F", "F", "T", "_">>, variant |-> 41, background |-> "top_left"],
       [pattern |-> <<"F", "T", "F", "T", "T", "_", "F", "_">>, variant |-> 47, background |-> "top_left"],
       [pattern |-> <<"T", "T", "T", "T", "T", "T", "T", "T">>, variant |-> 8, background |-> "top_left"],
       [pattern |-> <<"F", "T", "F", "T", "T", "F", "T", "F">>, variant |-> 40, background |-> "top_left"],
       [pattern |-> <<"_", "_", "_", "_", "_", "_", "_", "_">>, variant |-> 24, background |-> "top"] >>

(* an arm's pattern matches the tuple *)
ArmMatches(pattern, tuple) ==
    \A i \in 1..8 :
        \/ pattern[i] = "_"
        \/ pattern[i] = "T" /\ tuple[i]
        \/ pattern[i] = "F" /\ ~ tuple[i]

(* Arm with the index of the last specific arm mistyped *)
ArmTypo(i) ==
    IF i = Len(Rules) - 1 THEN [Rules[i] EXCEPT !.variant = 24] ELSE Rules[i]

(* Arm with the background of the first arm taken from the right neighbour *)
ArmBackgroundTypo(i) ==
    IF i = 1 THEN [Rules[i] EXCEPT !.background = "right"] ELSE Rules[i]

(* Arm with the second arm's variant mistyped as the first arm's *)
ArmSameVariant(i) ==
    IF i = 2 THEN [Rules[i] EXCEPT !.variant = Rules[1].variant] ELSE Rules[i]

(* the i-th arm of the match *)
Arm(i) == Rules[i]

(* the first arm, from arm i on, that matches *)
RECURSIVE FirstArm(_, _)
FirstArm(tuple, i) ==
    IF ArmMatches(Arm(i).pattern, tuple) THEN i ELSE FirstArm(tuple, i + 1)

(* fn get_tiles_to_display *)
get_tiles_to_display(tile, m, coordinates, layer) ==
    IF layer \in {"Terrain", "Feature"}
      THEN LET around == NeighbourKinds(tile, m, coordinates, layer)
               arm == Arm(FirstArm(MatchTuple(tile, m, coordinates, layer), 1))
           IN  [variant |-> arm.variant,
                background |-> around[NeighbourIndex[arm.background]]]
      ELSE [variant |-> 0, background |-> None]

(* the tiles the calls are made on: a feature-less Plain, a Desert under   *)
(* Ocean, and a tile whose layers are empty                                *)
PlainTile(coordinates) ==
    Tile(LayersInsert(NoLayers, "Terrain", "Plain"), coordinates)

DesertOceanTile(coordinates) ==
    Tile(LayersInsert(LayersInsert(NoLayers, "Terrain", "Desert"), "Feature", "Ocean"),
         coordinates)

TilesDrawn(coordinates) ==
    { PlainTile(coordinates), DesertOceanTile(coordinates), Tile(NoLayers, coordinates) }

(* the coordinate the calls are made at, and its neighbours *)
Center == <<1, 1>>
Around == { <<Center[1] + NeighbourOffsets[i][1], Center[2] + NeighbourOffsets[i][2]>> : i \in 1..8 }

(* the maps the calls are made on: the tile at Center, and each neighbour  *)
(* absent (a map edge), a feature-less Plain or a Desert under Ocean       *)
MapsDrawn(tile) ==
    { [c \in {Center} \cup {a \in Around : f[a] # "absent"} |->
          IF c = Center THEN tile
          ELSE IF f[c] = "plain" THEN PlainTile(c) ELSE DesertOceanTile(c)]
      : f \in [Around -> {"absent", "plain", "desert"}] }

(* setup, line 733: get_tiles_to_display(&item.1, &map, &item.0, layer) *)
DisplayTile ==
    /\ call # {}
    /\ tiles_to_display = {}
    /\ \E c \in call :
         tiles_to_display' = {get_tiles_to_display(c.tile, map, c.coordinates, c.layer)}
    /\ UNCHANGED <<map, gen_locals, call>>

(* a finished map and a call about to be made on it *)
InitTiles ==
    /\ pc = "done"
    /\ pass = 0
    /\ args = NoArgs
    /\ w = 0
    /\ h = 0
    /\ patch_centers = <<>>
    /\ idx = 0
    /\ radius = 0
    /\ amplitude_scale = 0
    /\ desert_band_thickness = 0
    /\ extent = <<MAP_WIDTH, MAP_HEIGHT>>
    /\ rng_draws = 0
    /\ written = {}
    /\ \E tile \in TilesDrawn(Center), layer \in Layers :
         /\ map \in MapsDrawn(tile)
         /\ call = {[tile |-> tile, coordinates |-> Center, layer |-> layer]}
    /\ tiles_to_display = {}

NextTiles == DisplayTile

SpecTiles == InitTiles /\ [][NextTiles]_vars


(***************************************************************************)
(* generate_multiple_patches called on its own: any kind, on a map that    *)
(* build_map has initialized.                                              *)
(***************************************************************************)

(* the layers every tile of the map holds when the call is made *)
LayersDrawn ==
    { UpdatedLayers(EmptyMap, <<0, 0>>, "Plain", "Ocean", None),
      UpdatedLayers(EmptyMap, <<0, 0>>, "Plain", "Ocean", "Fish"),
      UpdatedLayers(EmptyMap, <<0, 0>>, "Plain", "Forest", "Lumber"),
      UpdatedLayers(EmptyMap, <<0, 0>>, "Desert", None, None) }

(* the arguments of the call, but the kind *)
PatchArgs(kind) ==
    [kind |-> kind, count |-> 2, radius_range |-> <<1, 2>>, amplitude_range |-> <<1, 2>>]

InitPatch ==
    /\ \E layers \in LayersDrawn :
         map = [c \in (0..MAP_WIDTH) \X (0..MAP_HEIGHT) |-> Tile(layers, c)]
    /\ \E kind \in Kinds : args = PatchArgs(kind)
    /\ pc = "centers"
    /\ pass = 0
    /\ w = 1
    /\ h = 1
    /\ patch_centers = <<>>
    /\ idx = 1
    /\ radius = 0
    /\ amplitude_scale = 0
    /\ desert_band_thickness = 0
    /\ extent = <<MAP_WIDTH, MAP_HEIGHT>>
    /\ rng_draws = 0
    /\ written = {}
    /\ call = {}
    /\ tiles_to_display = {}

NextPatch ==
    \/ PlaceCenter
    \/ StartPatch
    \/ PatchCell
    \/ ReturnFromPatches

SpecPatch == InitPatch /\ [][NextPatch]_vars


(***************************************************************************)
(* generate_multiple_patches called with count 3, so with four patches: a  *)
(* Hill call on the map build_map has initialized.  The amplitude is 0, so *)
(* that each patch is the disk of its radius.                              *)
(***************************************************************************)
OrderArgs ==
    [kind |-> "Hill", count |-> 3, radius_range |-> <<1, 2>>, amplitude_range |-> <<0, 1>>]

InitOrder ==
    /\ map = [c \in (0..MAP_WIDTH) \X (0..MAP_HEIGHT) |->
                 Tile(UpdatedLayers(EmptyMap, c, "Plain", "Ocean", None), c)]
    /\ args = OrderArgs
    /\ pc = "centers"
    /\ pass = 0
    /\ w = 1
    /\ h = 1
    /\ patch_centers = <<>>
    /\ idx = 1
    /\ radius = 0
    /\ amplitude_scale = 0
    /\ desert_band_thickness = 0
    /\ extent = <<MAP_WIDTH, MAP_HEIGHT>>
    /\ rng_draws = 0
    /\ written = {}
    /\ call = {}
    /\ tiles_to_display = {}

SpecOrder == InitOrder /\ [][NextPatch]_vars


(***************************************************************************)
(* generate_multiple_patches called for one patch of amplitude 0, any      *)
(* kind, on a program built with a map wide enough for the patch's offset  *)
(* square to stay clear of the map's border.                               *)
(***************************************************************************)
DISK_MAP_SIZE == 7

DiskArgs(kind) ==
    [kind |-> kind, count |-> 2, radius_range |-> <<1, 3>>, amplitude_range |-> <<0, 1>>]

InitDisk ==
    /\ \E layers \in LayersDrawn :
         map = [c \in (0..DISK_MAP_SIZE) \X (0..DISK_MAP_SIZE) |-> Tile(layers, c)]
    /\ \E kind \in Kinds : args = DiskArgs(kind)
    /\ pc = "centers"
    /\ pass = 0
    /\ w = 1
    /\ h = 1
    /\ patch_centers = <<>>
    /\ idx = 1
    /\ radius = 0
    /\ amplitude_scale = 0
    /\ desert_band_thickness = 0
    /\ extent = <<DISK_MAP_SIZE, DISK_MAP_SIZE>>
    /\ rng_draws = 0
    /\ written = {}
    /\ call = {}
    /\ tiles_to_display = {}

SpecDisk == InitDisk /\ [][NextPatch]_vars


(***************************************************************************)
(* The claims.                                                             *)
(***************************************************************************)

(* the entry of a layer of the tile at key c *)
Entry(m, c, layer) == LayersGet(m[c].layers, layer)

(* C1: whenever a generation pass (a patch write of                        *)
(* generate_multiple_patches or a Desert-band write of build_map) writes a *)
(* Terrain kind to a cell that holds a Feature entry, the cell holds no    *)
(* Feature entry right after the write.                                    *)
C1_TerrainWriteClearsFeature ==
    [][\A wr \in written' :
          (/\ wr.kinds \cap TerrainKinds # {}
           /\ wr.key \in DOMAIN map
           /\ Entry(map, wr.key, "Feature") # None)
          => Entry(map', wr.key, "Feature") = None]_vars

(* C2: a write of a Feature or Special kind by generate_multiple_patches   *)
(* leaves the entries of all other layers of the written cell as they were *)
C2_WriteKeepsOtherLayers ==
    [][pc = "cells" =>
         \A wr \in written' : \A kind \in wr.kinds :
            get_layer_from_kind(kind) \in {"Feature", "Special"}
            => \A layer \in Layers \ {get_layer_from_kind(kind)} :
                  Entry(map', wr.key, layer) = Entry(map, wr.key, layer)]_vars

(* C3: a patch offset whose target center+(dx,dy) lies outside the grid    *)
(* causes no write, and a cell is modified by a patch only if its own      *)
(* coordinate is the target of the offset: no target is redirected.        *)
C3_NoRedirectedWrite ==
    [][pc = "cells" =>
         /\ \A wr \in written' : wr.target \in DOMAIN map /\ wr.key = wr.target
         /\ \A c \in DOMAIN map :
               map'[c] # map[c] => \E wr \in written' : wr.target = c]_vars

(* C4: every key of the grid lies in [0, MAP_WIDTH) x [0, MAP_HEIGHT). *)
C4_KeysInHalfOpenRectangle ==
    \A c \in DOMAIN map :
        /\ 0 <= c[1] /\ c[1] < MAP_WIDTH
        /\ 0 <= c[2] /\ c[2] < MAP_HEIGHT

(* every tile whose Feature is Forest has Terrain Plain *)
ForestOnPlain ==
    \A c \in DOMAIN map :
        Entry(map, c, "Feature") = "Forest" => Entry(map, c, "Terrain") = "Plain"

(* a step of a Forest patch writes only a cell whose Terrain is Plain at   *)
(* that moment, and whether it writes or not the loops go on               *)
ForestStep ==
    (pc = "cells" /\ args.kind = "Forest") =>
        /\ \A wr \in written' : Entry(map, wr.key, "Terrain") = "Plain"
        /\ pc' # "panic"
        /\ <<idx', w', h'>> # <<idx, w, h>>

(* C5: in every state of build_map every tile whose Feature is Forest has  *)
(* Terrain Plain (so from the end of the Forest pass through the Hill,     *)
(* Mountain and specials passes to the final grid); a Forest patch writes  *)
(* a cell only if its Terrain is Plain at the moment of the write, and a   *)
(* failed test skips only that cell.                                       *)
C5_ForestOnlyOnPlain == []ForestOnPlain /\ [][ForestStep]_vars

(* the final grid holds a Forest that the Hill and Mountain passes left in *)
(* place and on which the specials pass put Lumber                         *)
C5_Witness ==
    /\ pc = "done"
    /\ \E c \in DOMAIN map : Entry(map, c, "Feature") = "Forest" /\ Entry(map, c, "Special") = "Lumber"

(* C6: from the end of the initialization pass on, every coordinate of the *)
(* grid has a tile with a Terrain entry, and no Terrain lookup of the      *)
(* patch, Desert-band and specials passes fails.                           *)
C6_TerrainTotal ==
    /\ pc # "panic"
    /\ \A c \in DOMAIN map : Entry(map, c, "Terrain") # None
    /\ (pc # "init") =>
          (\A x \in 0..MAP_WIDTH, y \in 0..MAP_HEIGHT : <<x, y>> \in DOMAIN map)

(* the specials pass runs on a grid where patches replaced the Feature of  *)
(* a Desert tile                                                           *)
C6_Witness ==
    /\ pc = "specials"
    /\ \E c \in DOMAIN map :
          Entry(map, c, "Terrain") = "Desert" /\ Entry(map, c, "Feature") = "Mountain"

(* C7: for the Terrain and Feature layers, variant 8 (all 8 neighbours     *)
(* match) and variant 24 (the fallback) come with no background.           *)
C7_FullTilesHaveNoBackground ==
    \A c \in call : \A r \in tiles_to_display :
        (c.layer \in {"Terrain", "Feature"} /\ r.variant \in {8, 24})
        => r.background = None

(* the tuple of a call *)
CallTuple(c) == MatchTuple(c.tile, map, c.coordinates, c.layer)

(* C8: for the Terrain and Feature layers every match tuple gets a variant *)
(* in 0..48, an index of the 7x7 tileset; variant 24 is returned exactly   *)
(* for the tuples no specific arm matches; a cell none of whose neighbours *)
(* matches gets variant 24.                                                *)
C8_VariantDefined ==
    \A c \in call : \A r \in tiles_to_display :
        c.layer \in {"Terrain", "Feature"} =>
            /\ r.variant \in 0 .. (TILESET_WIDTH * TILESET_HEIGHT - 1)
            /\ (r.variant = 24) <=>
                  (~ \E i \in 1 .. (Len(Rules) - 1) :
                        ArmMatches(Rules[i].pattern, CallTuple(c)))
            /\ (\A i \in 1..8 : ~ CallTuple(c)[i]) => (r.variant = 24)

(* a call on a cell none of whose neighbours matches has returned *)
C8_Witness ==
    \E c \in call : \E r \in tiles_to_display :
        /\ c.layer = "Terrain"
        /\ \A i \in 1..8 : ~ CallTuple(c)[i]
        /\ r.variant = 24

(* the map of a call with every absent neighbour made a tile that holds    *)
(* the queried tile's own kind on the layer                                *)
FilledMap(c) ==
    LET kind == get_kind_of_tile_layer(c.tile, c.layer)
        own(at) == Tile(IF kind = None THEN NoLayers
                        ELSE LayersInsert(NoLayers, c.layer, kind), at)
        around == { <<c.coordinates[1] + NeighbourOffsets[i][1],
                      c.coordinates[2] + NeighbourOffsets[i][2]>> : i \in 1..8 }
    IN  [at \in (DOMAIN map) \cup around |-> IF at \in DOMAIN map THEN map[at] ELSE own(at)]

(* C9: for the Terrain and Feature layers the result for a cell with       *)
(* absent neighbours is the result it would get if every absent neighbour  *)
(* were a tile holding the cell's own kind on the layer.                   *)
C9_AbsentNeighbourMatches ==
    \A c \in call : \A r \in tiles_to_display :
        c.layer \in {"Terrain", "Feature"}
        => r = get_tiles_to_display(c.tile, FilledMap(c), c.coordinates, c.layer)

(* a call on a cell with an absent neighbour and a present one that does   *)
(* not match has returned                                                  *)
C9_Witness ==
    \E c \in call : \E r \in tiles_to_display :
        /\ c.layer = "Terrain"
        /\ Entry(map, c.coordinates, "Terrain") = "Desert"
        /\ <<c.coordinates[1], c.coordinates[2] + 1>> \notin DOMAIN map
        /\ <<c.coordinates[1] - 1, c.coordinates[2]>> \in DOMAIN map
        /\ ~ CallTuple(c)[4]
        /\ r.variant # 24

(* C10: a call for the Terrain layer on a tile without a Terrain entry     *)
(* fails: it returns no (variant, background).                             *)
C10_NoTerrainIsFatal ==
    \A c \in call :
        (c.layer = "Terrain" /\ get_kind_of_tile_layer(c.tile, "Terrain") = None)
        => tiles_to_display = {}

(* |a - b| <= d *)
Within(a, b, d) == a - b <= d /\ b - a <= d

(* the center pushed k-th is that of grid index (gw, gh), w-major, h-minor *)
CenterOfIndex(k) ==
    LET n  == args.count
        gw == ((k - 1) \div (n - 1)) + 1
        gh == ((k - 1) % (n - 1)) + 1
    IN  /\ Within(patch_centers[k][1], (extent[1] * gw) \div n, max_offset)
        /\ Within(patch_centers[k][2], (extent[2] * gh) \div n, max_offset)

CentersPlaced ==
    args.count > 1 =>
        /\ \A k \in 1 .. Len(patch_centers) : CenterOfIndex(k)
        /\ Len(patch_centers) <= (args.count - 1) * (args.count - 1)
        /\ pc \in {"patches", "cells"} =>
              /\ Len(patch_centers) = (args.count - 1) * (args.count - 1)
              /\ idx \in 1 .. (Len(patch_centers) + 1)

PatchesInOrder ==
    /\ (pc \in {"patches", "cells"} /\ pc' \in {"patches", "cells"}) =>
          /\ patch_centers' = patch_centers
          /\ idx' = idx \/ (pc = "cells" /\ pc' = "patches" /\ idx' = idx + 1)
    /\ (pc = "patches" /\ pc' = "cells") => idx <= Len(patch_centers)
    /\ (pc = "patches" /\ pc' \notin {"patches", "cells"}) => idx = Len(patch_centers) + 1
    /\ \A wr \in written' :
          /\ pc = "cells"
          /\ wr.target = <<patch_centers[idx][1] + w, patch_centers[idx][2] + h>>
          /\ Entry(map', wr.key, get_layer_from_kind(args.kind)) = args.kind

(* C12: a call with count n pushes exactly (n-1)^2 centers, the k-th being *)
(* that of grid index w = (k-1) div (n-1) + 1, h = (k-1) mod (n-1) + 1,    *)
(* within max_offset of (w * MAP_WIDTH div n, h * MAP_HEIGHT div n) on     *)
(* each axis; the patches are applied one after the other in that order,   *)
(* and a cell a patch writes holds the kind that patch wrote.              *)
C12_CentersAndOrder == []CentersPlaced /\ [][PatchesInOrder]_vars

(* all four patches of a count-3 call were applied, the second and third   *)
(* centers differ, and the cell they cover holds the kind                   *)
C12_Witness ==
    /\ args.count = 3
    /\ pc = "patches"
    /\ idx = 5
    /\ Len(patch_centers) = 4
    /\ patch_centers[2] # patch_centers[3]
    /\ Entry(map, <<1, 1>>, "Feature") = "Hill"

(* the offset square of the patch being applied lies in                    *)
(* [0, MAP_WIDTH) x [0, MAP_HEIGHT)                                        *)
SquareInside ==
    \A i \in 1..2 :
        /\ patch_centers[idx][i] - (radius + 1) >= 0
        /\ patch_centers[idx][i] + (radius + 1) <= extent[i] - 1

(* the cell at the current offset of the current patch *)
OffsetCell == <<patch_centers[idx][1] + w, patch_centers[idx][2] + h>>

(* a step of an amplitude-0 patch clear of the border writes the kind to   *)
(* the cell at the offset when `eligible`, and changes no other cell       *)
DiskStep(eligible) ==
    (pc = "cells" /\ amplitude_scale = 0 /\ SquareInside) =>
        /\ pc' # "panic"
        /\ \A c \in DOMAIN map \ {OffsetCell} : map'[c] = map[c]
        /\ IF eligible
             THEN /\ written' # {}
                  /\ \A wr \in written' : wr.key = OffsetCell
                  /\ Entry(map', OffsetCell, get_layer_from_kind(args.kind)) = args.kind
             ELSE /\ written' = {}
                  /\ map' = map

(* C13, as claimed: with amplitude 0, the one patch of radius r and kind K *)
(* whose offset square lies inside the grid writes K to exactly the cells  *)
(* at offsets with dx^2 + dy^2 < r^2 and changes no other cell.            *)
C13_DiskOfRadius == [][DiskStep(w * w + h * h < radius * radius)]_vars

(* C13, amended: ... writes K to exactly the cells at offsets with         *)
(* dx^2 + dy^2 < r^2 and, when K is Forest, whose Terrain is Plain, and    *)
(* changes no other cell.                                                  *)
C13_DiskOfRadiusForestOnPlain ==
    [][DiskStep(/\ w * w + h * h < radius * radius
                /\ MayReplace(args.kind, map, OffsetCell))]_vars

(* a Hill patch of radius 2 centered at (3, 3) has been applied: the nine  *)
(* cells of its disk hold a Hill                                           *)
C13_Witness ==
    /\ extent = <<DISK_MAP_SIZE, DISK_MAP_SIZE>>
    /\ args.kind = "Hill"
    /\ pc = "patches"
    /\ idx = 2
    /\ patch_centers = << <<3, 3>> >>
    /\ {c \in DOMAIN map : Entry(map, c, "Feature") = "Hill"}
          = {c \in DOMAIN map : (c[1] - 3) * (c[1] - 3) + (c[2] - 3) * (c[2] - 3) < 4}

(* C14: a patch draws its noise seed once, with its radius, frequency and  *)
(* amplitude: four values from the random source per patch, whatever the   *)
(* radius.                                                                 *)
C14_SeedDrawnOncePerPatch ==
    pc \in {"patches", "cells"} => rng_draws <= 4

SpecialsConsistent ==
    \A c \in DOMAIN map :
        /\ Entry(map, c, "Special") = "Corn" =>
              (Entry(map, c, "Terrain") = "Plain" /\ Entry(map, c, "Feature") = None)
        /\ Entry(map, c, "Special") = "Lumber" => Entry(map, c, "Feature") = "Forest"
        /\ Entry(map, c, "Special") = "Fish" => Entry(map, c, "Feature") = "Ocean"
        /\ Entry(map, c, "Special") # None => pc \in {"specials", "done"}

SpecialsStep ==
    /\ pc = "specials" =>
          /\ pc' \in {"specials", "done"}
          /\ \A c \in DOMAIN map : \A layer \in {"Terrain", "Feature"} :
                Entry(map', c, layer) = Entry(map, c, layer)
    /\ \A wr \in written' : wr.kinds \cap SpecialKinds # {} => pc = "specials"

(* C15: in the map build_map returns, a Corn lies on a Plain tile with no  *)
(* Feature, a Lumber on a Forest, a Fish on an Ocean; the specials pass is *)
(* the last to run, it alone writes specials, and it changes no Terrain or *)
(* Feature entry.                                                          *)
C15_SpecialsFollowTerrain == []SpecialsConsistent /\ [][SpecialsStep]_vars

(* build_map has returned a map with a Corn and a Fish *)
C15_Witness ==
    /\ pc = "done"
    /\ \E c \in DOMAIN map : Entry(map, c, "Special") = "Corn"
    /\ \E c \in DOMAIN map : Entry(map, c, "Special") = "Fish"

(* the neighbour the matching arm of the call takes the background from *)
BackgroundNeighbour(c) == NeighbourIndex[Arm(FirstArm(CallTuple(c), 1)).background]

(* C16: on the Terrain and Feature layers, unless all eight neighbours     *)
(* match, the background returned is the layer kind of a neighbour that is *)
(* present in the map and does not match: it is never the cell's own kind. *)
C16_BackgroundFromMismatch ==
    \A c \in call : \A r \in tiles_to_display :
        (c.layer \in {"Terrain", "Feature"} /\ \E i \in 1..8 : ~ CallTuple(c)[i]) =>
            LET j  == BackgroundNeighbour(c)
                at == <<c.coordinates[1] + NeighbourOffsets[j][1],
                        c.coordinates[2] + NeighbourOffsets[j][2]>>
            IN  /\ ~ CallTuple(c)[j]
                /\ at \in DOMAIN map
                /\ r.background = get_kind_of_tile_layer(map[at], c.layer)
                /\ r.background # get_kind_of_tile_layer(c.tile, c.layer)

(* a Terrain call on a Plain tile with an absent neighbour, a matching one *)
(* and a Desert one returned a transition variant over Desert              *)
C16_Witness ==
    \E c \in call : \E r \in tiles_to_display :
        /\ c.layer = "Terrain"
        /\ get_kind_of_tile_layer(c.tile, "Terrain") = "Plain"
        /\ \E at \in Around : at \notin DOMAIN map
        /\ \E at \in Around \cap DOMAIN map : get_kind_of_tile_layer(map[at], "Terrain") = "Plain"
        /\ r.variant \notin {8, 24}
        /\ r.background = "Desert"

(* every outcome of the eight comparisons *)
Tuples == [1..8 -> BOOLEAN]

(* the tuple with each diagonal bit kept only when both cardinals next to  *)
(* it match: the reduced pattern, written as a tuple                       *)
Reduced(t) ==
    [i \in 1..8 |->
        CASE i = 1 -> t[1] /\ t[2] /\ t[4]
          [] i = 3 -> t[3] /\ t[2] /\ t[5]
          [] i = 6 -> t[6] /\ t[4] /\ t[7]
          [] i = 8 -> t[8] /\ t[5] /\ t[7]
          [] OTHER -> t[i]]

ReducedTuples == {Reduced(t) : t \in Tuples}

(* the arm, and the variant, the match selects for each tuple *)
FirstArmOf == [t \in Tuples |-> FirstArm(t, 1)]
VariantOf == [t \in Tuples |-> Arm(FirstArmOf[t]).variant]

(* distinct reduced patterns get distinct variants, 47 in all *)
VariantsDistinct ==
    /\ Cardinality(ReducedTuples) = 47
    /\ Cardinality({VariantOf[t] : t \in ReducedTuples}) = 47
    /\ Cardinality({VariantOf[t] : t \in Tuples}) = 47

(* every arm is the first to match some tuple *)
NoArmShadowed == \A i \in 1 .. Len(Rules) : \E t \in Tuples : FirstArmOf[t] = i

(* C17: the variant returned is that of the reduced pattern of the call    *)
(* (the four cardinal bits, and each diagonal bit only when both cardinals *)
(* next to it match); distinct reduced patterns have distinct variants, so *)
(* two patterns get the same variant exactly when they reduce alike; there *)
(* are 47 variants; 8 is returned exactly when all eight neighbours match, *)
(* 24 exactly when no cardinal neighbour does; no arm is shadowed.         *)
C17_VariantOfReducedPattern ==
    /\ VariantsDistinct
    /\ NoArmShadowed
    /\ \A c \in call : \A r \in tiles_to_display :
          c.layer \in {"Terrain", "Feature"} =>
              LET t == CallTuple(c)
              IN  /\ r.variant = VariantOf[Reduced(t)]
                  /\ (r.variant = 8) <=> (\A i \in 1..8 : t[i])
                  /\ (r.variant = 24) <=> (~ (t[2] \/ t[4] \/ t[5] \/ t[7]))

(* a call whose top-left neighbour matches while the top one does not, so  *)
(* that the diagonal bit is dropped, with a matching left neighbour        *)
C17_Witness ==
    \E c \in call : \E r \in tiles_to_display :
        /\ c.layer = "Terrain"
        /\ CallTuple(c)[1] /\ ~ CallTuple(c)[2] /\ CallTuple(c)[4]
        /\ Reduced(CallTuple(c)) # CallTuple(c)
        /\ r.variant \notin {8, 24}
====
